---- MODULE Spec2Model ----
(***************************************************************************)
(* verti-guard: the evaluation pipeline behind VertiGuard.evaluate and the *)
(* trace decorators.                                                       *)
(*                                                                         *)
(* VertiGuard.evaluate (src/src/vertiguard/client.py) is translated from   *)
(* its source.  The evaluation engine, the adherence judge, the security   *)
(* scanner and the trace decorator are imported by client.py               *)
(* (vertiguard.evaluation.engine, vertiguard.evaluation.gemini_judge,      *)
(* vertiguard.decorators.trace) but their files are not part of the source *)
(* tree at hand; they are modelled from sections 3 to 7 of the design      *)
(* document.                                                               *)
(*                                                                         *)
(* Scores are fixed-point hundredths: 85 stands for 0.85, and the interval *)
(* [0,1] is 0..100.  An optional value is a sequence of length 0 or 1.     *)
(***************************************************************************)
EXTENDS Integers, Sequences, FiniteSets, TLC

\* ------------------------------------------------------------------ bounds

\* Number of calls (wrapped or manual) that may be in flight together.
MaxCalls == 2

\* Longest output text, in tokens, handed to the engine.
MaxTextLen == 2

Calls == 1..MaxCalls

\* ------------------------------------------------------- contract registry

\* The process-wide contract registry, config.nodes: name -> NodeContract.
\* The node names are those of examples/legal_analyzer/app.py; the first is
\* the scenario node of the design document (threshold 0.85).
NodeRegistry ==
    [n \in {"extract_entities", "summarize_document", "answer_query"} |->
        CASE n = "extract_entities" ->
                [expected_behaviors   |-> <<"lists all parties">>,
                 unexpected_behaviors |-> <<>>,
                 security_checks      |-> {"ssn", "email"},
                 adherence_threshold  |-> 85]
          [] n = "summarize_document" ->
                [expected_behaviors   |-> <<>>,
                 unexpected_behaviors |-> <<>>,
                 security_checks      |-> {"ssn", "secret"},
                 adherence_threshold  |-> 70]
          [] OTHER ->
                [expected_behaviors   |-> <<>>,
                 unexpected_behaviors |-> <<"hallucinated citation">>,
                 security_checks      |-> {},
                 adherence_threshold  |-> 0]]

\* Node names a caller may pass: the registered ones and one that is not.
NodeNames == {"extract_entities", "summarize_document", "answer_query", "ghost_node"}

\* ------------------------------------------------------- security scanner

\* Output text is a sequence of tokens; a rule's detector matches the token
\* that carries its pattern.
Tokens == {"ok", "ssn", "email", "secret"}

\* The scanner's rule set, in its (stable) evaluation order.
RuleOrder == <<"email", "ssn", "secret">>

Rules == {RuleOrder[i] : i \in 1..Len(RuleOrder)}

Severity(rule) ==
    CASE rule = "ssn"   -> "critical"
      [] rule = "email" -> "medium"
      [] OTHER          -> "low"

\* One rule's detector on a text: one issue per match, in text order.
RECURSIVE RuleIssuesFrom(_, _, _)
RuleIssuesFrom(rule, text, i) ==
    IF i > Len(text) THEN <<>>
    ELSE (IF text[i] = rule
             THEN <<[category |-> rule, severity |-> Severity(rule),
                     evidence_excerpt |-> i]>>
             ELSE <<>>)
         \o RuleIssuesFrom(rule, text, i + 1)

RuleIssues(rule, text) == RuleIssuesFrom(rule, text, 1)

\* Mutant of ScanFrom: the first rule that throws ends the scan.
RECURSIVE ScanFromAborting(_, _, _, _)
ScanFromAborting(i, text, enabled, broken) ==
    IF i > Len(RuleOrder) THEN [issues |-> <<>>, evaluated |-> <<>>, rule_errors |-> {}]
    ELSE LET rule == RuleOrder[i]
             rest == ScanFromAborting(i + 1, text, enabled, broken)
         IN  IF rule \notin enabled THEN rest
             ELSE IF rule \in broken
                  THEN [issues |-> <<>>, evaluated |-> <<rule>>, rule_errors |-> {rule}]
                  ELSE [issues      |-> RuleIssues(rule, text) \o rest.issues,
                        evaluated   |-> <<rule>> \o rest.evaluated,
                        rule_errors |-> rest.rule_errors]

\* The scanner's loop over the rules from position i on: each enabled rule is
\* evaluated inside its own guard; a rule that throws (rule \in broken)
\* contributes nothing and is logged, and the loop goes on.
RECURSIVE ScanFrom(_, _, _, _)
ScanFrom(i, text, enabled, broken) ==
    IF i > Len(RuleOrder) THEN [issues |-> <<>>, evaluated |-> <<>>, rule_errors |-> {}]
    ELSE LET rule == RuleOrder[i]
             rest == ScanFrom(i + 1, text, enabled, broken)
         IN  IF rule \notin enabled THEN rest
             ELSE IF rule \in broken
                  THEN [issues      |-> rest.issues,
                        evaluated   |-> <<rule>> \o rest.evaluated,
                        rule_errors |-> {rule} \cup rest.rule_errors]
                  ELSE [issues      |-> RuleIssues(rule, text) \o rest.issues,
                        evaluated   |-> <<rule>> \o rest.evaluated,
                        rule_errors |-> rest.rule_errors]

\* Security Scanner: (output text, enabled rule ids) -> ordered issues.
Scan(text, enabled, broken) == ScanFrom(1, text, enabled, broken)

\* -------------------------------------------------------- adherence judge

\* What the judge model transport delivers for the one request of an
\* evaluation: a transport failure, a timeout, text that is no JSON object of
\* the asked shape, or the JSON verdict.  The raw score is untrusted and may
\* lie outside 0..100.
JudgeFailureKinds == {"network_error", "timeout", "malformed"}

FailedReply(k) == [kind |-> k, score |-> 0, failed_behaviors |-> <<>>, confidence |-> "low"]

JsonReply(s, fb, conf) == [kind |-> "json", score |-> s, failed_behaviors |-> fb, confidence |-> conf]

NoReply == [kind |-> "none", score |-> 0, failed_behaviors |-> <<>>, confidence |-> "low"]

JudgeReplies ==
    {FailedReply(k) : k \in JudgeFailureKinds}
    \cup {JsonReply(s, fb, conf) :
            s \in {-20, 0, 60, 85, 90, 130},
            fb \in {<<>>, <<"missed one party">>},
            conf \in {"high", "medium", "low"}}

\* Mutant of Judge: a failed judge call is scored 0.
JudgeZeroOnFailure(reply) ==
    [score            |-> IF reply.kind = "json" THEN <<reply.score>> ELSE <<0>>,
     failed_behaviors |-> reply.failed_behaviors,
     confidence       |-> reply.confidence,
     error            |-> IF reply.kind = "json" THEN "none" ELSE reply.kind]

\* Adherence Judge: the reply parsed into a verdict.  A failure to reach the
\* model or to parse its answer is a degraded verdict, not an exception.
Judge(reply) ==
    IF reply.kind = "json"
    THEN [score            |-> <<reply.score>>,
          failed_behaviors |-> reply.failed_behaviors,
          confidence       |-> reply.confidence,
          error            |-> "none"]
    ELSE [score            |-> <<>>,
          failed_behaviors |-> <<>>,
          confidence       |-> "low",
          error            |-> reply.kind]

\* ------------------------------------------------------ evaluation engine

\* Mutant of HasBehaviors: the judge is asked for every node.
HasBehaviorsAlways(contract) == contract.adherence_threshold >= 0

HasBehaviors(contract) ==
    contract.expected_behaviors # <<>> \/ contract.unexpected_behaviors # <<>>

\* Mutant of Clamp: the judge's score is passed on as it came.
ClampNone(s) == s

Clamp(s) == IF s < 0 THEN 0 ELSE IF s > 100 THEN 100 ELSE s

\* The score the engine puts into the result: the judge's, clamped to [0,1];
\* absent when the judge was not applicable or gave none.
ResultScore(verdict) ==
    IF verdict # <<>> /\ verdict[1].score # <<>>
    THEN <<Clamp(verdict[1].score[1])>>
    ELSE <<>>

\* Mutant of Flagged: only the adherence score decides.
FlaggedByScoreOnly(contract, score, issues) ==
    score # <<>> /\ score[1] < contract.adherence_threshold

\* Step 3 of the engine: the flag.
Flagged(contract, score, issues) ==
    (score # <<>> /\ score[1] < contract.adherence_threshold) \/ issues # <<>>

\* Step 4 of the engine: the judge's confidence, "low" when a sub-check
\* degraded.  With no judge and nothing degraded the design document names
\* no value; the model carries "not_applicable".
Confidence(scan, verdict) ==
    IF scan.rule_errors # {} \/ (verdict # <<>> /\ verdict[1].error # "none")
    THEN "low"
    ELSE IF verdict # <<>> THEN verdict[1].confidence ELSE "not_applicable"

\* Steps 3 and 4: the scanner's and the judge's verdicts merged into one
\* EvaluationResult.  verdict is <<>> when the judge was not applicable.
Merge(contract, scan, verdict) ==
    LET score == ResultScore(verdict)
    IN  [adherence_score  |-> score,
         failed_behaviors |-> IF verdict # <<>> THEN verdict[1].failed_behaviors ELSE <<>>,
         security_issues  |-> scan.issues,
         flagged          |-> Flagged(contract, score, scan.issues),
         confidence       |-> Confidence(scan, verdict),
         error            |-> IF verdict # <<>> THEN verdict[1].error ELSE "none"]

\* ------------------------------------------------- root-cause advisor
\* optimization/root_cause.py, class RootCauseAnalyzer.

\* The callers that may be inside one analyzer at the same time.
MaxTasks == 2

Tasks == 1..MaxTasks

\* An exception handed to analyze_error: its type name and its message,
\* the message split where str(error)[:100] cuts it: head is the first
\* 100 characters, tail the rest ("" for a message that short).
ErrorTypes == {"ValueError", "KeyError"}

MessageHeads == {"document is empty"}

MessageTails == {"", " (and 3 more)"}

Errors == [type : ErrorTypes, head : MessageHeads, tail : MessageTails]

\* f"{type(error).__name__}:{str(error)[:100]}"
_get_cache_key(error) == <<error.type, error.head>>

\* analyze_evaluation_failure takes no category and computes no key; the
\* signature of an evaluation failure is taken to be its node.
EvaluationSignature(node) == <<"evaluation", node>>

NoSubject == [type |-> "none", head |-> "none", tail |-> "none"]

\* The failing node stands where the error stands in an analysis.
NodeSubject(node) == [type |-> "evaluation", head |-> node, tail |-> ""]

\* What the caller passes besides the error: context is dumped with
\* json.dumps, input and output with str; either can raise.
ContextKinds == {"plain", "unserialisable"}

\* The fields the docstring of analyze_error promises.
PromisedFields ==
    {"root_cause", "suggested_fixes", "files_to_check", "debug_steps", "severity"}

\* The fields the prompt of _run_evaluation_analysis asks for.
EvaluationFields ==
    {"root_cause", "suggested_fixes", "prompt_improvements",
     "example_good_output", "severity", "risk_if_unfixed"}

\* The model's text, token by token: an opening fence (three backticks, with
\* or without "json"), a JSON value or prose, a closing fence; "[nl]" is a
\* run of whitespace.
OpeningFences == {"[fence json]", "[fence]"}

JsonTokens == {"{asked}", "{root_cause}", "[]"}

ModelTexts ==
    {<<"{asked}">>, <<"[fence json]", "{asked}", "[fence]">>, <<"[fence]", "{asked}", "[fence]">>,
     <<"[fence json]", "[nl]", "{asked}", "[nl]", "[fence]", "[nl]">>,
     <<"{root_cause}">>, <<"[]">>, <<"I cannot help">>,
     <<"[fence]", "I cannot help", "[fence]">>}

\* text.strip()
RECURSIVE Strip(_)
Strip(text) ==
    IF text = <<>> THEN text
    ELSE IF text[1] = "[nl]" THEN Strip(Tail(text))
    ELSE IF text[Len(text)] = "[nl]" THEN Strip(SubSeq(text, 1, Len(text) - 1))
    ELSE text

\* Mutant of StripFences: only a fence that says json is taken off.
StripFencesJsonOnly(text) ==
    LET s == Strip(text)
        a == IF s # <<>> /\ s[1] = "[fence json]" THEN Tail(s) ELSE s
    IN  Strip(IF a # s /\ a # <<>> /\ a[Len(a)] = "[fence]"
              THEN SubSeq(a, 1, Len(a) - 1) ELSE a)

\* strip, then text[7:] if the text starts with a json fence, then text[3:]
\* if it starts with a bare fence, then text[:-3] if it ends with a fence,
\* then strip again.
StripFences(text) ==
    LET s == Strip(text)
        a == IF s # <<>> /\ s[1] = "[fence json]" THEN Tail(s) ELSE s
        b == IF a # <<>> /\ a[1] = "[fence]" THEN Tail(a) ELSE a
    IN  Strip(IF b # <<>> /\ b[Len(b)] = "[fence]" THEN SubSeq(b, 1, Len(b) - 1) ELSE b)

\* An analysis as the caller sees it. shape tells a dict from any other JSON
\* value, keys are the dict's keys, about is the failure whose context was in
\* the prompt that produced it.
Analysis(shape, keys, root_cause, fixes, severity, explanation, error, about) ==
    [shape |-> shape, keys |-> keys, root_cause |-> root_cause,
     suggested_fixes |-> fixes, severity |-> severity,
     explanation |-> explanation, error |-> error, about |-> about]

\* json.loads of one token: the object the prompt asked for, an object with
\* a root_cause only, an array.
JsonValue(token, asked, about) ==
    IF token = "{asked}"
    THEN Analysis("object", asked, "model diagnosis", <<"Fix 1">>, "high", <<>>, "none", about)
    ELSE IF token = "{root_cause}"
    THEN Analysis("object", {"root_cause"}, "model diagnosis", <<>>, "none", <<>>, "none", about)
    ELSE Analysis("array", {}, "none", <<>>, "none", <<>>, "none", about)

IsJson(text) == Len(text) = 1 /\ text[1] \in JsonTokens

\* _run_analysis from the response text on: strip the fences, json.loads,
\* and on JSONDecodeError the fallback that carries the text.
_run_analysis(text, about) ==
    LET body == StripFences(text)
    IN  IF IsJson(body)
        THEN JsonValue(body[1], PromisedFields \cup {"explanation"}, about)
        ELSE Analysis("object", PromisedFields \cup {"explanation"},
                      "Unable to parse analysis", <<"Review error context manually">>,
                      "medium", body, "none", about)

\* _run_evaluation_analysis from the response text on.
_run_evaluation_analysis(text, about) ==
    LET body == StripFences(text)
    IN  IF IsJson(body)
        THEN JsonValue(body[1], EvaluationFields, about)
        ELSE Analysis("object",
                      {"root_cause", "suggested_fixes", "prompt_improvements",
                       "severity", "explanation"},
                      "Unable to parse analysis", <<>>, "medium", body, "none", about)

\* The dict analyze_error returns from its except clause.
AnalysisFailed(error) ==
    Analysis("object", PromisedFields \cup {"error"}, "Analysis failed",
             <<"Manual investigation required">>, "unknown", <<>>, error, NoSubject)

\* The dict analyze_evaluation_failure returns from its except clause.
EvaluationAnalysisFailed(error) ==
    Analysis("object",
             {"root_cause", "suggested_fixes", "prompt_improvements", "severity", "error"},
             "Analysis failed", <<>>, "medium", <<>>, error, NoSubject)

\* analysis.get(...) in the log call after the analysis: only a dict has get.
Loggable(analysis) == analysis.shape = "object"

EmptyCache == [k \in {} |-> NoSubject]

IdleTask ==
    [pc |-> "idle", op |-> "none", key |-> <<"none", "none">>, about |-> NoSubject,
     repeat |-> FALSE, requested |-> FALSE, text |-> <<>>, analysis |-> <<>>,
     outcome |-> <<>>, count |-> 0]

\* ----------------------------------------------------- prompt optimizer
\* optimization/dspy_optimizer.py, class DSpyOptimizer.

\* The records _optimization_history is let grow to.
MaxHistory == 2

Prompts == {"Summarise the contract.", "List the parties."}

\* How the constructor goes: the dspy import had failed (DSPY_AVAILABLE is
\* False); configuring the language model raises; it completes.
ConstructionKinds == {"dspy_missing", "lm_error", "ok"}

\* Where the try block of optimize_prompt raises, if anywhere: building the
\* context; PromptImprover() or the call of it; reading improved_prompt,
\* changes_made or confidence off the result for the record; len of
\* changes_made in the log call; reading reasoning for the returned dict.
OptimizeFailures ==
    {"none", "context", "dspy_call", "result_fields", "changes_unsized", "no_reasoning"}

\* The failures that leave the try block before the record is appended.
BeforeRecord == {"context", "dspy_call", "result_fields"}

\* optimization_record, lines 121-127.
OptimizationRecord(prompt, failure) ==
    [original_prompt |-> prompt, improved_prompt |-> "improved",
     changes |-> IF failure = "changes_unsized" THEN <<"no list">> ELSE <<"added constraint">>,
     confidence |-> 80]

\* The dict optimize_prompt returns on success, lines 136-141 (confidence in
\* hundredths).
Optimized(record) ==
    [improved_prompt |-> record.improved_prompt, changes_made |-> record.changes,
     confidence |-> record.confidence, reasoning |-> "explained", error |-> "none"]

\* The dict optimize_prompt returns when the optimizer is disabled, lines
\* 98-104, and from its except clause, lines 145-151.
NotOptimized(prompt, reasoning, error) ==
    [improved_prompt |-> prompt, changes_made |-> <<>>, confidence |-> 0,
     reasoning |-> reasoning, error |-> error]

\* ------------------------------------------------------------------ state

VARIABLES
    nodes,      \* config.nodes, the contract registry
    mode,       \* "inline" or "background": how the wrapper couples evaluation
    shutdown,   \* the process is shutting down
    calls,      \* per call: the caller's side
    evals,      \* per call: the evaluation unit of work
    sink,       \* the telemetry sink: the records emitted to it, in order
    rejected,   \* the kinds of record the sink has rejected so far (logged)
    _analysis_cache, \* RootCauseAnalyzer._analysis_cache: signature -> analysis
    tasks,      \* per caller of the analyzer: the call it is in
    analysed,   \* history: the signatures analysed with success since the last clear
    cleared,    \* history: the signatures the last clear_cache dropped, until an analyze_error has returned
    optimizer,  \* the DSpyOptimizer: enabled, _optimization_history, and its last call
    _client,    \* client.py's global client: NoClient, or the init call that built it
    inits,      \* the number of init calls made so far
    completed,  \* history: the most recent init call that completed, or NoClient
    config_set, \* set_config: the init call whose config is the process-wide one
    wired,      \* set_evaluation_engine, set_datadog_client: whose parts the decorators hold
    enabled,    \* the clients whose bridge has _enabled = True
    registered, \* the clients whose _cleanup is registered with atexit
    observed    \* what the last module-level, client or bridge operation gave its caller

pipelineVars == <<nodes, mode, shutdown, calls, evals, sink, rejected>>

advisorVars == <<_analysis_cache, tasks, analysed, cleared>>

clientVars == <<_client, inits, completed, config_set, wired, enabled, registered, observed>>

optimizerVars == <<optimizer>>

vars == <<pipelineVars, advisorVars, clientVars, optimizerVars>>

NoOutcome == [kind |-> "none", type |-> "none", message |-> "none", value |-> <<>>]

Returned(v) == [kind |-> "value", type |-> "none", message |-> "none", value |-> v]

Raised(type, message) == [kind |-> "error", type |-> type, message |-> message, value |-> <<>>]

\* evaluate() hands the engine's EvaluationResult to its caller.
ResultOutcome == [kind |-> "result", type |-> "none", message |-> "none", value |-> <<>>]

EmptyScan == [issues |-> <<>>, evaluated |-> <<>>, rule_errors |-> {}]

\* The init calls of one run.
MaxInits == 2

NoClient == 0

NoObservation ==
    [op |-> "none", outcome |-> NoOutcome, sink_raised |-> FALSE, called |-> <<>>,
     bridge |-> NoClient]

NoOptimizerCall ==
    [op |-> "none", prompt |-> "none", failure |-> "none", outcome |-> NoOutcome]

\* No optimizer has been constructed. has_history tells whether the object
\* has the attribute _optimization_history.
NoOptimizer ==
    [built |-> FALSE, enabled |-> FALSE, has_history |-> FALSE, history |-> <<>>,
     last |-> NoOptimizerCall]

IdleCall ==
    [pc |-> "idle", kind |-> "none", node |-> "none", executed |-> FALSE,
     fn |-> NoOutcome, observed |-> NoOutcome]

IdleEval ==
    [pc |-> "none", text |-> <<>>, broken |-> {}, reply |-> NoReply,
     scan |-> EmptyScan, verdict |-> <<>>, result |-> <<>>, steps |-> <<>>]

Init ==
    /\ nodes = NodeRegistry
    /\ mode \in {"inline", "background"}
    /\ shutdown = FALSE
    /\ calls = [c \in Calls |-> IdleCall]
    /\ evals = [c \in Calls |-> IdleEval]
    /\ sink = <<>>
    /\ rejected = {}
    /\ _analysis_cache = EmptyCache
    /\ tasks = [t \in Tasks |-> IdleTask]
    /\ analysed = {}
    /\ cleared = <<>>
    /\ optimizer = NoOptimizer
    /\ _client = NoClient
    /\ inits = 0
    /\ completed = NoClient
    /\ config_set = NoClient
    /\ wired = NoClient
    /\ enabled = {}
    /\ registered = {}
    /\ observed = NoObservation

\* Calls are numbered in the order in which they are made.
NextToInvoke(c) ==
    /\ calls[c].pc = "idle"
    /\ c > 1 => calls[c - 1].pc # "idle"
    /\ ~shutdown

\* -------------------------------------------------------------- telemetry

\* One record emitted to the telemetry sink.
SinkEvent(kind, c) == [kind |-> kind, call |-> c]

\* The core emits a record; delivered is FALSE when the sink rejects it
\* (SinkDeliveryError): logged, never propagated.
Emit(kind, c, delivered) ==
    /\ sink' = Append(sink, SinkEvent(kind, c))
    /\ rejected' = IF delivered THEN rejected ELSE rejected \cup {kind}

\* ------------------------------------------------- VertiGuard.evaluate

\* self.config.nodes.get(node_name): the contract, or None.
NodeLookup(n) == IF n \in DOMAIN nodes THEN <<nodes[n]>> ELSE <<>>

\* Mutant of ManualEvaluate: an unknown node is entered into the registry
\* with an empty contract and evaluated against it.
ManualEvaluateRegistering(c, n, t) ==
    /\ NextToInvoke(c)
    /\ nodes' = [m \in DOMAIN nodes \cup {n} |->
                    IF m \in DOMAIN nodes THEN nodes[m]
                    ELSE [expected_behaviors |-> <<>>, unexpected_behaviors |-> <<>>,
                          security_checks |-> {}, adherence_threshold |-> 0]]
    /\ calls' = [calls EXCEPT ![c] =
            [@ EXCEPT !.pc = "awaiting_eval", !.kind = "manual", !.node = n]]
    /\ evals' = [evals EXCEPT ![c] = [@ EXCEPT !.pc = "scan", !.text = t]]
    /\ UNCHANGED <<mode, shutdown, sink, rejected, advisorVars, clientVars, optimizerVars>>

\* Mutant of ManualEvaluate: an unknown node is skipped silently.
ManualEvaluateSkipping(c, n, t) ==
    /\ NextToInvoke(c)
    /\ IF NodeLookup(n) = <<>>
       THEN /\ calls' = [calls EXCEPT ![c] =
                    [@ EXCEPT !.pc = "done", !.kind = "manual", !.node = n,
                              !.observed = ResultOutcome]]
            /\ UNCHANGED evals
       ELSE /\ calls' = [calls EXCEPT ![c] =
                    [@ EXCEPT !.pc = "awaiting_eval", !.kind = "manual", !.node = n]]
            /\ evals' = [evals EXCEPT ![c] = [@ EXCEPT !.pc = "scan", !.text = t]]
    /\ UNCHANGED <<nodes, mode, shutdown, sink, rejected, advisorVars, clientVars, optimizerVars>>

\* VertiGuard.evaluate, up to the await of the engine: an unknown node name
\* raises ValueError and the engine is not called; otherwise the engine's
\* evaluate starts on (node_config, input_data, output_data).
ManualEvaluate(c, n, t) ==
    /\ NextToInvoke(c)
    /\ IF NodeLookup(n) = <<>>
       THEN /\ calls' = [calls EXCEPT ![c] =
                    [@ EXCEPT !.pc = "done", !.kind = "manual", !.node = n,
                              !.observed = Raised("ValueError", "Unknown node")]]
            /\ UNCHANGED evals
       ELSE /\ calls' = [calls EXCEPT ![c] =
                    [@ EXCEPT !.pc = "awaiting_eval", !.kind = "manual", !.node = n]]
            /\ evals' = [evals EXCEPT ![c] = [@ EXCEPT !.pc = "scan", !.text = t]]
    /\ UNCHANGED <<nodes, mode, shutdown, sink, rejected, advisorVars, clientVars, optimizerVars>>

\* ------------------------------------------------ instrumentation wrapper

\* The wrapper resolves the node's contract before it runs the wrapped
\* function; a miss is ContractNotFound, raised to the caller.
InvokeWrapped(c, n) ==
    /\ NextToInvoke(c)
    /\ calls' = [calls EXCEPT ![c] =
            IF n \in DOMAIN nodes
            THEN [@ EXCEPT !.pc = "running", !.kind = "wrapped", !.node = n]
            ELSE [@ EXCEPT !.pc = "done", !.kind = "wrapped", !.node = n,
                           !.observed = Raised("ContractNotFound", "no contract")]]
    /\ UNCHANGED <<nodes, mode, shutdown, evals, sink, rejected, advisorVars, clientVars, optimizerVars>>

\* Mutant of FunctionReturns: "record call" is left out on return.
FunctionReturnsUnrecorded(c, t, delivered) ==
    /\ calls[c].pc = "running"
    /\ evals' = [evals EXCEPT ![c] = [@ EXCEPT !.pc = "scan", !.text = t]]
    /\ calls' = [calls EXCEPT ![c] =
            IF mode = "inline"
            THEN [@ EXCEPT !.pc = "awaiting_eval", !.executed = TRUE, !.fn = Returned(t)]
            ELSE [@ EXCEPT !.pc = "done", !.executed = TRUE, !.fn = Returned(t),
                           !.observed = Returned(t)]]
    /\ UNCHANGED <<nodes, mode, shutdown, sink, rejected, advisorVars, clientVars, optimizerVars>>

\* Mutant of FunctionReturns: the caller is suspended in either mode.
FunctionReturnsAwaiting(c, t, delivered) ==
    /\ calls[c].pc = "running"
    /\ Emit("record_call", c, delivered)
    /\ evals' = [evals EXCEPT ![c] = [@ EXCEPT !.pc = "scan", !.text = t]]
    /\ calls' = [calls EXCEPT ![c] =
            [@ EXCEPT !.pc = "awaiting_eval", !.executed = TRUE, !.fn = Returned(t)]]
    /\ UNCHANGED <<nodes, mode, shutdown, advisorVars, clientVars, optimizerVars>>

\* The wrapped function returned t: "record call" is emitted, the evaluation
\* is dispatched; inline mode suspends the caller until it resolves,
\* background mode returns the function's result at once.
FunctionReturns(c, t, delivered) ==
    /\ calls[c].pc = "running"
    /\ Emit("record_call", c, delivered)
    /\ evals' = [evals EXCEPT ![c] = [@ EXCEPT !.pc = "scan", !.text = t]]
    /\ calls' = [calls EXCEPT ![c] =
            IF mode = "inline"
            THEN [@ EXCEPT !.pc = "awaiting_eval", !.executed = TRUE, !.fn = Returned(t)]
            ELSE [@ EXCEPT !.pc = "done", !.executed = TRUE, !.fn = Returned(t),
                           !.observed = Returned(t)]]
    /\ UNCHANGED <<nodes, mode, shutdown, advisorVars, clientVars, optimizerVars>>

\* Mutant of FunctionRaises: a rejected record replaces the error.
FunctionRaisesMasked(c, type, message, delivered) ==
    /\ calls[c].pc = "running"
    /\ Emit("record_call", c, delivered)
    /\ evals' = [evals EXCEPT ![c] = [@ EXCEPT !.pc = "diagnose"]]
    /\ calls' = [calls EXCEPT ![c] =
            [@ EXCEPT !.pc = "done", !.executed = TRUE, !.fn = Raised(type, message),
                      !.observed = IF delivered THEN Raised(type, message)
                                   ELSE Raised("SinkDeliveryError", "record rejected")]]
    /\ UNCHANGED <<nodes, mode, shutdown, advisorVars, clientVars, optimizerVars>>

\* The wrapped function raised: "record call" is emitted with the error,
\* diagnostics are scheduled best-effort as a detached unit, and the original
\* error is re-raised.
FunctionRaises(c, type, message, delivered) ==
    /\ calls[c].pc = "running"
    /\ Emit("record_call", c, delivered)
    /\ evals' = [evals EXCEPT ![c] = [@ EXCEPT !.pc = "diagnose"]]
    /\ calls' = [calls EXCEPT ![c] =
            [@ EXCEPT !.pc = "done", !.executed = TRUE, !.fn = Raised(type, message),
                      !.observed = Raised(type, message)]]
    /\ UNCHANGED <<nodes, mode, shutdown, advisorVars, clientVars, optimizerVars>>

\* The detached diagnostics of a failed call end, well or not.
DiagnosticsEnd(c, ok) ==
    /\ evals[c].pc = "diagnose"
    /\ evals' = [evals EXCEPT ![c] = [@ EXCEPT !.pc = IF ok THEN "diag_done" ELSE "diag_failed"]]
    /\ UNCHANGED <<nodes, mode, shutdown, calls, sink, rejected, advisorVars, clientVars, optimizerVars>>

\* ------------------------------------------- evaluation engine: evaluate

\* Step 1: the security scanner, synchronously, on the output text.
ScanStep(c, brokenRules) ==
    /\ evals[c].pc = "scan"
    /\ LET contract == nodes[calls[c].node]
       IN  evals' = [evals EXCEPT ![c] =
               [@ EXCEPT !.pc = IF HasBehaviors(contract) THEN "judge" ELSE "merge",
                         !.broken = brokenRules,
                         !.scan = Scan(evals[c].text, contract.security_checks, brokenRules),
                         !.steps = Append(@, "scan")]]
    /\ UNCHANGED <<nodes, mode, shutdown, calls, sink, rejected, advisorVars, clientVars, optimizerVars>>

\* Step 2: the one judge request of the evaluation, and its parse.
JudgeStep(c, reply) ==
    /\ evals[c].pc = "judge"
    /\ evals' = [evals EXCEPT ![c] =
            [@ EXCEPT !.pc = "merge", !.reply = reply, !.verdict = <<Judge(reply)>>,
                      !.steps = Append(@, "judge")]]
    /\ UNCHANGED <<nodes, mode, shutdown, calls, sink, rejected, advisorVars, clientVars, optimizerVars>>

\* Steps 3 and 4: the merge.  evaluate() returns the result: to the caller of
\* VertiGuard.evaluate, or to the wrapper, which then reports it.
MergeStep(c) ==
    /\ evals[c].pc = "merge"
    /\ LET contract == nodes[calls[c].node]
           manual == calls[c].kind = "manual"
       IN  /\ evals' = [evals EXCEPT ![c] =
                   [@ EXCEPT !.pc = IF manual THEN "done" ELSE "report",
                             !.result = <<Merge(contract, evals[c].scan, evals[c].verdict)>>,
                             !.steps = Append(@, "merge")]]
           /\ calls' = [calls EXCEPT ![c] =
                   IF manual THEN [@ EXCEPT !.pc = "done", !.observed = ResultOutcome]
                   ELSE @]
    /\ UNCHANGED <<nodes, mode, shutdown, sink, rejected, advisorVars, clientVars, optimizerVars>>

\* The caller suspended on this call's evaluation (inline mode) resumes with
\* the wrapped function's own result.
Resume(c) ==
    IF calls[c].pc = "awaiting_eval"
    THEN [calls EXCEPT ![c] = [@ EXCEPT !.pc = "done", !.observed = calls[c].fn]]
    ELSE calls

\* The end of a wrapped call's evaluation unit: the CallRecord and the
\* EvaluationResult are not retained beyond the handoff to the sink.
Discarded(state) == [IdleEval EXCEPT !.pc = state]

\* The wrapper emits "record evaluation" once the engine has resolved.
ReportEvaluation(c, delivered) ==
    /\ evals[c].pc = "report"
    /\ Emit("record_evaluation", c, delivered)
    /\ evals' = [evals EXCEPT ![c] = Discarded("done")]
    /\ calls' = Resume(c)
    /\ UNCHANGED <<nodes, mode, shutdown, advisorVars, clientVars, optimizerVars>>

PendingEval == {"scan", "judge", "merge", "report"}

\* The evaluation unit of a wrapped call fails as a whole; the wrapper
\* absorbs the failure and nothing is reported.
EvaluationFails(c) ==
    /\ calls[c].kind = "wrapped"
    /\ evals[c].pc \in PendingEval
    /\ evals' = [evals EXCEPT ![c] = Discarded("failed")]
    /\ calls' = Resume(c)
    /\ UNCHANGED <<nodes, mode, shutdown, sink, rejected, advisorVars, clientVars, optimizerVars>>

\* The process starts to shut down once no caller is inside a call.
Shutdown ==
    /\ ~shutdown
    /\ \A c \in Calls : calls[c].pc \in {"idle", "done"}
    /\ shutdown' = TRUE
    /\ UNCHANGED <<nodes, mode, calls, evals, sink, rejected, advisorVars, clientVars, optimizerVars>>

\* After the grace period a background evaluation still pending is
\* abandoned: a logged loss.
Abandon(c) ==
    /\ shutdown
    /\ evals[c].pc \in PendingEval \cup {"diagnose"}
    /\ evals' = [evals EXCEPT ![c] = Discarded("abandoned")]
    /\ UNCHANGED <<nodes, mode, shutdown, calls, sink, rejected, advisorVars, clientVars, optimizerVars>>

\* ------------------------------------------------ RootCauseAnalyzer calls
\* A call is a sequence of steps of its caller; between two steps other
\* callers of the same analyzer may run (the analyzer holds no lock). The
\* steps are cut where a call reads or writes _analysis_cache.

\* What generate_content does: it raises, or the response carries a text.
ModelReplies ==
    {[raised |-> FALSE, text |-> x] : x \in ModelTexts} \cup {[raised |-> TRUE, text |-> <<>>]}

\* self._analysis_cache[cache_key] = analysis
Stored(key, analysis) ==
    [k \in DOMAIN _analysis_cache \cup {key} |->
        IF k = key THEN analysis ELSE _analysis_cache[k]]

\* analyze_error up to the cache check: _build_error_context (json.dumps of
\* the context raises TypeError on a value it cannot serialise, and the
\* except clause answers), then _get_cache_key and the membership test.
analyze_error(t, error, context) ==
    /\ tasks[t].pc = "idle"
    /\ LET key  == _get_cache_key(error)
           call == [IdleTask EXCEPT !.op = "analyze_error", !.key = key,
                                    !.about = error, !.repeat = key \in analysed]
       IN  tasks' = [tasks EXCEPT ![t] =
               IF context = "unserialisable"
               THEN [call EXCEPT !.pc = "done",
                                 !.outcome = <<AnalysisFailed("TypeError")>>]
               ELSE IF key \in DOMAIN _analysis_cache
               THEN [call EXCEPT !.pc = "read"]
               ELSE [call EXCEPT !.pc = "model"]]
    /\ UNCHANGED <<_analysis_cache, analysed, cleared, pipelineVars, clientVars, optimizerVars>>

\* return self._analysis_cache[cache_key]: the subscript after the
\* membership test; a key removed in between is a KeyError, which the except
\* clause answers.
read_cached(t) ==
    /\ tasks[t].pc = "read"
    /\ tasks' = [tasks EXCEPT ![t] =
           [@ EXCEPT !.pc = "done",
                     !.outcome =
                         IF tasks[t].key \in DOMAIN _analysis_cache
                         THEN <<_analysis_cache[tasks[t].key]>>
                         ELSE <<AnalysisFailed("KeyError")>>]]
    /\ UNCHANGED <<_analysis_cache, analysed, cleared, pipelineVars, clientVars, optimizerVars>>

\* analysis = await self._run_analysis(error_context): one model request; a
\* request that raises is answered by the except clause.
run_analysis(t, reply) ==
    /\ tasks[t].pc = "model"
    /\ tasks' = [tasks EXCEPT ![t] =
           IF reply.raised
           THEN [@ EXCEPT !.pc = "done", !.requested = TRUE,
                          !.outcome = <<AnalysisFailed("DeadlineExceeded")>>]
           ELSE [@ EXCEPT !.pc = "store", !.requested = TRUE, !.text = reply.text,
                          !.analysis = <<_run_analysis(reply.text, tasks[t].about)>>]]
    /\ UNCHANGED <<_analysis_cache, analysed, cleared, pipelineVars, clientVars, optimizerVars>>

\* The assignment into the cache, the log call and the return: the log call
\* reads the analysis with get, an AttributeError on anything but a dict,
\* raised after the assignment and answered by the except clause.
cache_result(t) ==
    /\ tasks[t].pc = "store"
    /\ LET analysis == tasks[t].analysis[1]
       IN  /\ _analysis_cache' = Stored(tasks[t].key, analysis)
           /\ IF Loggable(analysis)
              THEN /\ tasks' = [tasks EXCEPT ![t] =
                          [@ EXCEPT !.pc = "done", !.analysis = <<>>,
                                    !.outcome = <<analysis>>]]
                   /\ analysed' = analysed \cup {tasks[t].key}
              ELSE /\ tasks' = [tasks EXCEPT ![t] =
                          [@ EXCEPT !.pc = "done", !.analysis = <<>>,
                                    !.outcome = <<AnalysisFailed("AttributeError")>>]]
                   /\ UNCHANGED analysed
    /\ UNCHANGED <<cleared, pipelineVars, clientVars, optimizerVars>>

\* analyze_evaluation_failure up to the model request:
\* _build_evaluation_context raises on a score that is not a number, on
\* behaviors that are not iterable, on a node_config json cannot dump.
analyze_evaluation_failure(t, node, buildable) ==
    /\ tasks[t].pc = "idle"
    /\ LET key  == EvaluationSignature(node)
           call == [IdleTask EXCEPT !.op = "analyze_evaluation_failure", !.key = key,
                                    !.about = NodeSubject(node),
                                    !.repeat = key \in analysed]
       IN  tasks' = [tasks EXCEPT ![t] =
               IF buildable
               THEN [call EXCEPT !.pc = "eval_model"]
               ELSE [call EXCEPT !.pc = "done",
                                 !.outcome = <<EvaluationAnalysisFailed("TypeError")>>]]
    /\ UNCHANGED <<_analysis_cache, analysed, cleared, pipelineVars, clientVars, optimizerVars>>

\* analysis = await self._run_evaluation_analysis(context), the log call
\* and the return; the cache is neither read nor written.
run_evaluation_analysis(t, reply) ==
    /\ tasks[t].pc = "eval_model"
    /\ LET analysis == _run_evaluation_analysis(reply.text, tasks[t].about)
           answered == ~reply.raised /\ Loggable(analysis)
       IN  /\ tasks' = [tasks EXCEPT ![t] =
                  [@ EXCEPT !.pc = "done", !.requested = TRUE, !.text = reply.text,
                            !.outcome =
                                IF reply.raised
                                THEN <<EvaluationAnalysisFailed("DeadlineExceeded")>>
                                ELSE IF Loggable(analysis)
                                THEN <<analysis>>
                                ELSE <<EvaluationAnalysisFailed("AttributeError")>>]]
           /\ analysed' = IF answered THEN analysed \cup {tasks[t].key} ELSE analysed
    /\ UNCHANGED <<_analysis_cache, cleared, pipelineVars, clientVars, optimizerVars>>

\* Mutant of clear_cache: the entries are left in the cache.
clear_cache_keeping ==
    /\ _analysis_cache' = _analysis_cache
    /\ analysed' = {}
    /\ cleared' = <<DOMAIN _analysis_cache>>
    /\ UNCHANGED <<tasks, pipelineVars, clientVars, optimizerVars>>

\* self._analysis_cache.clear()
clear_cache ==
    /\ _analysis_cache' = EmptyCache
    /\ analysed' = {}
    /\ cleared' = <<DOMAIN _analysis_cache>>
    /\ UNCHANGED <<tasks, pipelineVars, clientVars, optimizerVars>>

\* {"cached_analyses": len(self._analysis_cache)}
get_cache_stats(t) ==
    /\ tasks[t].pc = "idle"
    /\ tasks' = [tasks EXCEPT ![t] =
           [IdleTask EXCEPT !.pc = "done", !.op = "get_cache_stats",
                            !.count = Cardinality(DOMAIN _analysis_cache)]]
    /\ UNCHANGED <<_analysis_cache, analysed, cleared, pipelineVars, clientVars, optimizerVars>>

\* The caller has its answer and is free to call again.
TaskReturns(t) ==
    /\ tasks[t].pc = "done"
    /\ tasks' = [tasks EXCEPT ![t] = IdleTask]
    /\ cleared' = IF tasks[t].op = "analyze_error" THEN <<>> ELSE cleared
    /\ UNCHANGED <<_analysis_cache, analysed, pipelineVars, clientVars, optimizerVars>>

\* ------------------------------------------------ LLMObsBridge, client.py

\* The caller of op got outcome; sinkRaised tells whether the LLMObs
\* operation underneath raised, called lists the LLMObs operations the call
\* made, bridge is the client whose bridge _enabled the call read (NoClient
\* for a call that reads none).
ObserveBridge(op, outcome, sinkRaised, called, bridge) ==
    observed' = [op |-> op, outcome |-> outcome, sink_raised |-> sinkRaised,
                 called |-> called, bridge |-> bridge]

\* The LLMObs operations behind the static methods of the bridge and the
\* methods of the client that only forward to them.
SinkCalls(op) ==
    IF op \in {"annotate", "submit_evaluation", "export_span"} THEN <<op>>
    ELSE IF op \in {"LLMObsBridge.flush", "VertiGuard.flush", "close"} THEN <<"flush">>
    ELSE <<>>

Observe(op, outcome, sinkRaised) ==
    ObserveBridge(op, outcome, sinkRaised, SinkCalls(op), NoClient)

NoValue == <<>>

SinkError == Raised("SinkDeliveryError", "LLMObs operation failed")

\* Mutant of BridgeFlush: the error of LLMObs.flush is not caught.
BridgeFlushPropagating(raises) == IF raises THEN SinkError ELSE Returned(NoValue)

\* LLMObsBridge.flush: try LLMObs.flush(), except Exception log a warning.
BridgeFlush(raises) == Returned(NoValue)

\* LLMObsBridge.annotate: try LLMObs.annotate(...), except Exception warn.
annotate(raises) ==
    /\ Observe("annotate", Returned(NoValue), raises)
    /\ UNCHANGED <<_client, inits, completed, config_set, wired, enabled, registered>>
    /\ UNCHANGED <<pipelineVars, advisorVars, optimizerVars>>

\* LLMObsBridge.submit_evaluation: try LLMObs.submit_evaluation(...), except
\* Exception warn.
submit_evaluation(raises) ==
    /\ Observe("submit_evaluation", Returned(NoValue), raises)
    /\ UNCHANGED <<_client, inits, completed, config_set, wired, enabled, registered>>
    /\ UNCHANGED <<pipelineVars, advisorVars, optimizerVars>>

LLMObsBridge_flush(raises) ==
    /\ Observe("LLMObsBridge.flush", BridgeFlush(raises), raises)
    /\ UNCHANGED <<_client, inits, completed, config_set, wired, enabled, registered>>
    /\ UNCHANGED <<pipelineVars, advisorVars, optimizerVars>>

\* LLMObsBridge.export_span: the span context, or None when
\* LLMObs.export_span raises.
export_span(raises) ==
    /\ Observe("export_span",
               IF raises THEN Returned(NoValue) ELSE Returned(<<"span context">>), raises)
    /\ UNCHANGED <<_client, inits, completed, config_set, wired, enabled, registered>>
    /\ UNCHANGED <<pipelineVars, advisorVars, optimizerVars>>

\* What can go wrong inside LLMObsBridge.enable: nothing; the set-up before
\* LLMObs.enable (_configure_ssl, os.environ.setdefault with a value that is
\* no string); LLMObs.enable itself.
EnableFailures == {"none", "setup", "enable"}

EnableError == Raised("LLMObsError", "LLMObs.enable failed")

\* Mutant of BridgeEnable: the except clause logs the error and returns.
BridgeEnableSwallowing(was, failure) ==
    IF was
    THEN [enabled |-> TRUE, outcome |-> Returned(NoValue), called |-> <<>>]
    ELSE [enabled |-> failure = "none", outcome |-> Returned(NoValue),
          called |-> IF failure = "setup" THEN <<>> ELSE <<"enable">>]

\* LLMObsBridge.enable on a bridge whose _enabled is was: return at once
\* when enabled; else the set-up, LLMObs.enable and _enabled = True, and on
\* an exception anywhere in these the log call and a bare raise.
BridgeEnable(was, failure) ==
    IF was
    THEN [enabled |-> TRUE, outcome |-> Returned(NoValue), called |-> <<>>]
    ELSE [enabled |-> failure = "none",
          outcome |-> IF failure = "none" THEN Returned(NoValue) ELSE EnableError,
          called  |-> IF failure = "setup" THEN <<>> ELSE <<"enable">>]

\* Mutant of BridgeDisable: the error of LLMObs.flush is not caught, and
\* _enabled stays set.
BridgeDisablePropagating(was, raises) ==
    IF was /\ raises
    THEN [enabled |-> TRUE, outcome |-> SinkError, called |-> <<"flush">>]
    ELSE [enabled |-> FALSE, outcome |-> Returned(NoValue),
          called |-> IF was THEN <<"flush">> ELSE <<>>]

\* LLMObsBridge.disable on a bridge whose _enabled is was: when enabled,
\* LLMObs.flush under try/except and _enabled = False; else nothing.
BridgeDisable(was, raises) ==
    [enabled |-> FALSE, outcome |-> Returned(NoValue),
     called |-> IF was THEN <<"flush">> ELSE <<>>]

\* How an init call ends: load_config raises; a component constructor
\* raises after set_config; llmobs.enable() raises after the decorators are
\* wired, in its set-up or in LLMObs.enable; the constructor returns.
InitOutcomes == {"config_error", "component_error", "setup_error", "enable_error", "ok"}

InitResult(k, outcome) ==
    IF outcome = "ok" THEN Returned(<<k>>) ELSE Raised(outcome, "init failed")

\* Mutant of init: the global is reset before the client is built.
init_resetting(outcome) ==
    /\ inits < MaxInits
    /\ LET k     == inits + 1
           built == outcome \in {"setup_error", "enable_error", "ok"}
           e     == BridgeEnable(FALSE, IF outcome = "ok" THEN "none"
                                        ELSE IF outcome = "setup_error" THEN "setup"
                                        ELSE "enable")
           made  == built /\ e.outcome.kind = "value"
       IN  /\ inits' = k
           /\ config_set' = IF outcome = "config_error" THEN config_set ELSE k
           /\ wired' = IF built THEN k ELSE wired
           /\ enabled' = IF built /\ e.enabled THEN enabled \cup {k} ELSE enabled
           /\ registered' = IF made THEN registered \cup {k} ELSE registered
           /\ _client' = IF made THEN k ELSE NoClient
           /\ completed' = IF made THEN k ELSE completed
           /\ ObserveBridge("init",
                            IF made THEN Returned(<<k>>)
                            ELSE IF built THEN e.outcome
                            ELSE InitResult(k, outcome),
                            built /\ outcome # "ok", IF built THEN e.called ELSE <<>>, k)
    /\ UNCHANGED <<pipelineVars, advisorVars, optimizerVars>>

\* init: load_config, the overrides, VertiGuard(config) and, only when the
\* constructor has returned, the assignment to the global. The constructor
\* calls set_config, builds the components, wires the decorators, enables
\* the bridge (an error of enable leaves the constructor) and registers
\* _cleanup, in that order.
init(outcome) ==
    /\ inits < MaxInits
    /\ LET k     == inits + 1
           built == outcome \in {"setup_error", "enable_error", "ok"}
           e     == BridgeEnable(FALSE, IF outcome = "ok" THEN "none"
                                        ELSE IF outcome = "setup_error" THEN "setup"
                                        ELSE "enable")
           made  == built /\ e.outcome.kind = "value"
       IN  /\ inits' = k
           /\ config_set' = IF outcome = "config_error" THEN config_set ELSE k
           /\ wired' = IF built THEN k ELSE wired
           /\ enabled' = IF built /\ e.enabled THEN enabled \cup {k} ELSE enabled
           /\ registered' = IF made THEN registered \cup {k} ELSE registered
           /\ _client' = IF made THEN k ELSE _client
           /\ completed' = IF made THEN k ELSE completed
           /\ ObserveBridge("init",
                            IF made THEN Returned(<<k>>)
                            ELSE IF built THEN e.outcome
                            ELSE InitResult(k, outcome),
                            built /\ outcome # "ok", IF built THEN e.called ELSE <<>>, k)
    /\ UNCHANGED <<pipelineVars, advisorVars, optimizerVars>>

\* get_client: RuntimeError while the global is None, else the global.
get_client ==
    /\ Observe("get_client",
               IF _client = NoClient
               THEN Raised("RuntimeError", "VertiGuard not initialized")
               ELSE Returned(<<_client>>), FALSE)
    /\ UNCHANGED <<_client, inits, completed, config_set, wired, enabled, registered>>
    /\ UNCHANGED <<pipelineVars, advisorVars, optimizerVars>>

\* is_initialized: _client is not None.
is_initialized ==
    /\ Observe("is_initialized", Returned(<<_client # NoClient>>), FALSE)
    /\ UNCHANGED <<_client, inits, completed, config_set, wired, enabled, registered>>
    /\ UNCHANGED <<pipelineVars, advisorVars, optimizerVars>>

\* VertiGuard.flush: self.llmobs.flush().
VertiGuard_flush(raises) ==
    /\ Observe("VertiGuard.flush", BridgeFlush(raises), raises)
    /\ UNCHANGED <<_client, inits, completed, config_set, wired, enabled, registered>>
    /\ UNCHANGED <<pipelineVars, advisorVars, optimizerVars>>

\* VertiGuard._cleanup of client k at exit: self.llmobs.flush(), then
\* self.llmobs.disable(), which flushes once more under its own try when the
\* bridge is enabled and clears _enabled.
_cleanup(k, raises, raisesAgain) ==
    /\ k \in registered
    /\ registered' = registered \ {k}
    /\ IF BridgeFlush(raises).kind = "error"
       THEN /\ ObserveBridge("_cleanup", BridgeFlush(raises), raises, <<"flush">>, k)
            /\ UNCHANGED enabled
       ELSE LET d == BridgeDisable(k \in enabled, raisesAgain)
            IN  /\ ObserveBridge("_cleanup", d.outcome,
                                 raises \/ (k \in enabled /\ raisesAgain),
                                 <<"flush">> \o d.called, k)
                /\ enabled' = IF d.enabled THEN enabled \cup {k} ELSE enabled \ {k}
    /\ UNCHANGED <<_client, inits, completed, config_set, wired>>
    /\ UNCHANGED <<pipelineVars, advisorVars, optimizerVars>>

\* client.llmobs.enable() on the client get_client returns.
LLMObsBridge_enable(failure) ==
    /\ _client # NoClient
    /\ LET e == BridgeEnable(_client \in enabled, failure)
       IN  /\ enabled' = IF e.enabled THEN enabled \cup {_client} ELSE enabled \ {_client}
           /\ ObserveBridge("enable", e.outcome,
                            _client \notin enabled /\ failure # "none", e.called, _client)
    /\ UNCHANGED <<_client, inits, completed, config_set, wired, registered>>
    /\ UNCHANGED <<pipelineVars, advisorVars, optimizerVars>>

\* client.llmobs.disable() on the client get_client returns.
LLMObsBridge_disable(raises) ==
    /\ _client # NoClient
    /\ LET d == BridgeDisable(_client \in enabled, raises)
       IN  /\ enabled' = IF d.enabled THEN enabled \cup {_client} ELSE enabled \ {_client}
           /\ ObserveBridge("disable", d.outcome, _client \in enabled /\ raises,
                            d.called, _client)
    /\ UNCHANGED <<_client, inits, completed, config_set, wired, registered>>
    /\ UNCHANGED <<pipelineVars, advisorVars, optimizerVars>>

\* client.llmobs.is_enabled on the client get_client returns.
is_enabled ==
    /\ _client # NoClient
    /\ ObserveBridge("is_enabled", Returned(<<_client \in enabled>>), FALSE, <<>>, _client)
    /\ UNCHANGED <<_client, inits, completed, config_set, wired, enabled, registered>>
    /\ UNCHANGED <<pipelineVars, advisorVars, optimizerVars>>

\* VertiGuard.trace, workflow, llm, task, agent: each hands node_name to the
\* decorator factory of that kind and returns the decorator.
DecoratorKinds == {"trace", "workflow", "llm", "task", "agent"}

decorator(kind, n) ==
    /\ Observe(kind, Returned(<<n>>), FALSE)
    /\ UNCHANGED <<_client, inits, completed, config_set, wired, enabled, registered>>
    /\ UNCHANGED <<pipelineVars, advisorVars, optimizerVars>>

ProvisioningError == Raised("DatadogError", "provisioning failed")

\* VertiGuard.setup_monitors: the default monitors, then the custom ones of
\* config.alerts; an error of the monitor manager is the caller's.
MonitorsOutcome(fails) == IF fails THEN ProvisioningError ELSE Returned(<<"monitors">>)

\* VertiGuard.setup_dashboard: None when config.create_dashboard is off, else
\* what create_dashboard answers for the definition built from the template.
DashboardOutcome(create, fails) ==
    IF ~create THEN Returned(NoValue)
    ELSE IF fails THEN ProvisioningError
    ELSE Returned(<<"dashboard">>)

setup_monitors(fails) ==
    /\ Observe("setup_monitors", MonitorsOutcome(fails), FALSE)
    /\ UNCHANGED <<_client, inits, completed, config_set, wired, enabled, registered>>
    /\ UNCHANGED <<pipelineVars, advisorVars, optimizerVars>>

setup_dashboard(create, fails) ==
    /\ Observe("setup_dashboard", DashboardOutcome(create, fails), FALSE)
    /\ UNCHANGED <<_client, inits, completed, config_set, wired, enabled, registered>>
    /\ UNCHANGED <<pipelineVars, advisorVars, optimizerVars>>

\* VertiGuard.setup_all: setup_monitors, then setup_dashboard.
setup_all(create, monitorsFail, dashboardFails) ==
    /\ Observe("setup_all",
               IF monitorsFail THEN ProvisioningError
               ELSE IF DashboardOutcome(create, dashboardFails).kind = "error"
               THEN ProvisioningError
               ELSE Returned(<<"monitors">> \o DashboardOutcome(create, dashboardFails).value),
               FALSE)
    /\ UNCHANGED <<_client, inits, completed, config_set, wired, enabled, registered>>
    /\ UNCHANGED <<pipelineVars, advisorVars, optimizerVars>>

\* VertiGuard.submit_service_check: what the Datadog client answers.
submit_service_check(ok) ==
    /\ Observe("submit_service_check", Returned(<<ok>>), FALSE)
    /\ UNCHANGED <<_client, inits, completed, config_set, wired, enabled, registered>>
    /\ UNCHANGED <<pipelineVars, advisorVars, optimizerVars>>

\* VertiGuard.close: flush, then the Datadog and notification clients close.
close(raises) ==
    /\ Observe("close", BridgeFlush(raises), raises)
    /\ UNCHANGED <<_client, inits, completed, config_set, wired, enabled, registered>>
    /\ UNCHANGED <<pipelineVars, advisorVars, optimizerVars>>

\* ---------------------------------------------------- DSpyOptimizer calls

\* DSpyOptimizer(...): without dspy, enabled = False and return, before
\* _optimization_history is assigned; else enabled = True, the empty
\* history, and enabled = False again when configuring the model raises.
DSpyOptimizer_init(how) ==
    /\ optimizer' =
           [built |-> TRUE, enabled |-> how = "ok", has_history |-> how # "dspy_missing",
            history |-> <<>>,
            last |-> [NoOptimizerCall EXCEPT !.op = "__init__", !.outcome = Returned(NoValue)]]
    /\ UNCHANGED <<pipelineVars, advisorVars, clientVars>>

\* Mutant of OptimizeHistory: the record is appended before the DSPy call.
OptimizeHistoryEager(history, prompt, failure) ==
    IF failure = "context" THEN history
    ELSE Append(history, OptimizationRecord(prompt, failure))

\* _optimization_history after the try block of optimize_prompt: the record
\* is appended at line 128, after the DSPy call and before the log call and
\* the return.
OptimizeHistory(history, prompt, failure) ==
    IF failure \in BeforeRecord THEN history
    ELSE Append(history, OptimizationRecord(prompt, failure))

\* optimize_prompt: the fallback when not enabled; else the try block, and
\* from its except clause the fallback that carries the error.
optimize_prompt(prompt, failure) ==
    /\ optimizer.built
    /\ (optimizer.enabled /\ failure \notin BeforeRecord) => Len(optimizer.history) < MaxHistory
    /\ optimizer' =
           IF ~optimizer.enabled
           THEN [optimizer EXCEPT !.last =
                    [op |-> "optimize_prompt", prompt |-> prompt, failure |-> "disabled",
                     outcome |-> Returned(<<NotOptimized(prompt, "DSPy not available",
                                     "DSPy not installed or failed to initialize")>>)]]
           ELSE [optimizer EXCEPT
                    !.history = OptimizeHistory(optimizer.history, prompt, failure),
                    !.last =
                        [op |-> "optimize_prompt", prompt |-> prompt, failure |-> failure,
                         outcome |->
                             IF failure = "none"
                             THEN Returned(<<Optimized(OptimizationRecord(prompt, failure))>>)
                             ELSE Returned(<<NotOptimized(prompt, "Optimization failed", failure)>>)]]
    /\ UNCHANGED <<pipelineVars, advisorVars, clientVars>>

\* get_optimization_history: a copy of the list; AttributeError on an object
\* built without dspy, which has no such attribute.
get_optimization_history ==
    /\ optimizer.built
    /\ optimizer' = [optimizer EXCEPT !.last =
           [op |-> "get_optimization_history", prompt |-> "none", failure |-> "none",
            outcome |-> IF optimizer.has_history THEN Returned(optimizer.history)
                        ELSE Raised("AttributeError", "_optimization_history")]]
    /\ UNCHANGED <<pipelineVars, advisorVars, clientVars>>

\* clear_history: self._optimization_history.clear().
clear_history ==
    /\ optimizer.built
    /\ optimizer' = [optimizer EXCEPT
           !.history = <<>>,
           !.last =
               [op |-> "clear_history", prompt |-> "none", failure |-> "none",
                outcome |-> IF optimizer.has_history THEN Returned(NoValue)
                            ELSE Raised("AttributeError", "_optimization_history")]]
    /\ UNCHANGED <<pipelineVars, advisorVars, clientVars>>

\* ---------------------------------------------------------- specifications

\* Outputs of the wrapped functions.
Texts == UNION {[1..k -> Tokens] : k \in 0..MaxTextLen}

\* Errors a wrapped function raises.
FunctionErrors == {<<"RuntimeError", "model overloaded">>, <<"ValueError", "empty document">>}

\* Inputs of the concurrent specification: one registered node and the
\* unregistered name, two outputs, no throwing rule, a failed and a parsed
\* judge reply.
CallTexts == {<<"ok">>, <<"ssn">>} \cap Texts

CallNodes == {"extract_entities", "ghost_node"}

\* The output the client's calls are given to evaluate: one text with a
\* finding takes the evaluation through every stage.
ClientTexts == {<<"ssn">>} \cap Texts

CallBroken == {{}}

CallReplies == {FailedReply("timeout"), JsonReply(60, <<"missed one party">>, "high")}

EngineStep(c, brokenSets, replies) ==
    \/ \E b \in brokenSets : ScanStep(c, b)
    \/ \E r \in replies : JudgeStep(c, r)
    \/ MergeStep(c)

Next ==
    \/ \E c \in Calls, n \in CallNodes, t \in CallTexts : ManualEvaluate(c, n, t)
    \/ \E c \in Calls, n \in CallNodes : InvokeWrapped(c, n)
    \/ \E c \in Calls, t \in CallTexts, d \in BOOLEAN : FunctionReturns(c, t, d)
    \/ \E c \in Calls, e \in FunctionErrors, d \in BOOLEAN : FunctionRaises(c, e[1], e[2], d)
    \/ \E c \in Calls, ok \in BOOLEAN : DiagnosticsEnd(c, ok)
    \/ \E c \in Calls : EngineStep(c, CallBroken, CallReplies)
    \/ \E c \in Calls, d \in BOOLEAN : ReportEvaluation(c, d)
    \/ \E c \in Calls : EvaluationFails(c)
    \/ Shutdown
    \/ \E c \in Calls : Abandon(c)

Spec == Init /\ [][Next]_vars

\* One evaluation through VertiGuard.evaluate, over every text, every set of
\* throwing rules and every judge reply.
NextEngine ==
    \/ \E n \in NodeNames, t \in Texts : ManualEvaluate(1, n, t)
    \/ EngineStep(1, SUBSET Rules, JudgeReplies)

SpecEngine == Init /\ [][NextEngine]_vars

\* The nodes evaluation failures are reported for.
FailingNodes == {"extract_entities", "summarize_document"}

\* One caller of the analyzer, its calls one after the other, over every
\* error, context and model reply.
NextAdvisorSeq ==
    \/ \E e \in Errors, k \in ContextKinds : analyze_error(1, e, k)
    \/ read_cached(1)
    \/ \E r \in ModelReplies : run_analysis(1, r)
    \/ cache_result(1)
    \/ \E n \in FailingNodes, b \in BOOLEAN : analyze_evaluation_failure(1, n, b)
    \/ \E r \in ModelReplies : run_evaluation_analysis(1, r)
    \/ tasks[1].pc = "idle" /\ clear_cache
    \/ get_cache_stats(1)
    \/ TaskReturns(1)

SpecAdvisorSeq == Init /\ [][NextAdvisorSeq]_vars

\* Inputs of the concurrent specification: two errors of one signature and
\* one of another, a reply that parses to what was asked, one that parses to
\* an array, a request that fails.
RaceErrors ==
    {e \in Errors : e.type = "ValueError" \/ e.tail = ""}

RaceReplies ==
    {r \in ModelReplies : r.raised \/ r.text \in {<<"{asked}">>, <<"[]">>}}

\* MaxTasks callers of one analyzer, their steps interleaved.
NextAdvisor ==
    \/ \E t \in Tasks, e \in RaceErrors : analyze_error(t, e, "plain")
    \/ \E t \in Tasks : read_cached(t)
    \/ \E t \in Tasks, r \in RaceReplies : run_analysis(t, r)
    \/ \E t \in Tasks : cache_result(t)
    \/ clear_cache
    \/ \E t \in Tasks : get_cache_stats(t)
    \/ \E t \in Tasks : TaskReturns(t)

SpecAdvisor == Init /\ [][NextAdvisor]_vars

\* The steps of a call at which its coroutine hands the event loop back.
\* The model request is self.client.models.generate_content(...), a blocking
\* call made in the body of the async method, with no await on it and no
\* executor around it, and a call awaits nothing but that method: there are
\* none.
SuspensionPoints == {}

\* The coroutine of t has started and has neither returned nor suspended.
HoldsLoop(t) == tasks[t].pc \notin {"idle", "done"} \cup SuspensionPoints

\* The event loop runs one coroutine at a time, up to its next suspension
\* point or its return: t can run when no other coroutine holds the loop.
LoopFree(t) == \A u \in Tasks \ {t} : ~HoldsLoop(u)

\* Inputs of the event-loop specification: one error, one failing node, a
\* reply that parses to what was asked, a request that fails.
LoopErrors == {e \in Errors : e.type = "ValueError" /\ e.tail = ""}

LoopNodes == {"extract_entities"}

LoopReplies == {r \in ModelReplies : r.raised \/ r.text = <<"{asked}">>}

\* MaxTasks callers of one analyzer, all of them tasks of one event loop.
NextAdvisorLoop ==
    \/ \E t \in Tasks, e \in LoopErrors : LoopFree(t) /\ analyze_error(t, e, "plain")
    \/ \E t \in Tasks : LoopFree(t) /\ read_cached(t)
    \/ \E t \in Tasks, r \in LoopReplies : LoopFree(t) /\ run_analysis(t, r)
    \/ \E t \in Tasks : LoopFree(t) /\ cache_result(t)
    \/ \E t \in Tasks, n \in LoopNodes :
           LoopFree(t) /\ analyze_evaluation_failure(t, n, TRUE)
    \/ \E t \in Tasks, r \in LoopReplies : LoopFree(t) /\ run_evaluation_analysis(t, r)
    \/ \E t \in Tasks : LoopFree(t) /\ tasks[t].pc = "idle" /\ clear_cache
    \/ \E t \in Tasks : LoopFree(t) /\ get_cache_stats(t)
    \/ \E t \in Tasks : LoopFree(t) /\ TaskReturns(t)

SpecAdvisorLoop == Init /\ [][NextAdvisorLoop]_vars

\* The module-level functions, the bridge and, once get_client has a client
\* to give, the operations of that client; one manual evaluation.
Constructed == _client # NoClient

NextClient ==
    \/ \E o \in InitOutcomes : init(o)
    \/ get_client
    \/ is_initialized
    \/ \E r \in BOOLEAN : annotate(r)
    \/ \E r \in BOOLEAN : submit_evaluation(r)
    \/ \E r \in BOOLEAN : LLMObsBridge_flush(r)
    \/ \E r \in BOOLEAN : export_span(r)
    \/ \E f \in EnableFailures : LLMObsBridge_enable(f)
    \/ \E r \in BOOLEAN : LLMObsBridge_disable(r)
    \/ is_enabled
    \/ \E k \in 1..MaxInits, r, q \in BOOLEAN : _cleanup(k, r, q)
    \/ Constructed /\ \E r \in BOOLEAN : VertiGuard_flush(r)
    \/ Constructed /\ \E k \in DecoratorKinds, n \in CallNodes : decorator(k, n)
    \/ Constructed /\ \E f \in BOOLEAN : setup_monitors(f)
    \/ Constructed /\ \E c, f \in BOOLEAN : setup_dashboard(c, f)
    \/ Constructed /\ \E c, f, g \in BOOLEAN : setup_all(c, f, g)
    \/ Constructed /\ \E n \in CallNodes, t \in ClientTexts : ManualEvaluate(1, n, t)
    \/ EngineStep(1, CallBroken, CallReplies)
    \/ Constructed /\ \E ok \in BOOLEAN : submit_service_check(ok)
    \/ Constructed /\ \E r \in BOOLEAN : close(r)

SpecClient == Init /\ [][NextClient]_vars

\* One optimizer: its construction and its calls.
NextOptimizer ==
    \/ \E how \in ConstructionKinds : DSpyOptimizer_init(how)
    \/ \E p \in Prompts, f \in OptimizeFailures : optimize_prompt(p, f)
    \/ get_optimization_history
    \/ clear_history

SpecOptimizer == Init /\ [][NextOptimizer]_vars

\* ------------------------------------------------------------------ claims

\* The evaluations that produced a result, and what they worked on.
Evaluated == {c \in Calls : evals[c].result # <<>>}

ResultOf(c) == evals[c].result[1]

ContractOf(c) == nodes[calls[c].node]

\* The positions of the output text that carry rule's pattern.
Matches(rule, text) == {i \in 1..Len(text) : text[i] = rule}

\* The rules of the contract that ran to the end on this evaluation.
SoundRules(c) == ContractOf(c).security_checks \ evals[c].broken

\* C1: the result's flagged field is true exactly when an adherence score is
\* present and below the node's threshold, or security_issues is non-empty;
\* an output that triggers an enabled security rule is flagged whatever the
\* adherence score is.
C1_FlaggedIffLowScoreOrIssue ==
    \A c \in Evaluated :
        LET r == ResultOf(c)
        IN  /\ r.flagged <=>
                  \/ /\ r.adherence_score # <<>>
                     /\ r.adherence_score[1] < ContractOf(c).adherence_threshold
                  \/ r.security_issues # <<>>
            /\ (\E rule \in SoundRules(c) : Matches(rule, evals[c].text) # {})
                  => r.security_issues # <<>> /\ r.flagged

\* A result whose score is at or above the threshold and which is flagged
\* for a security issue alone.
C1_Witness ==
    \E c \in Evaluated :
        LET r == ResultOf(c)
        IN  /\ r.adherence_score # <<>>
            /\ r.adherence_score[1] >= ContractOf(c).adherence_threshold
            /\ r.security_issues # <<>>
            /\ r.flagged

\* C2: in every EvaluationResult, flagged implies that failed_behaviors or
\* security_issues is non-empty.
C2_FlaggedHasReason ==
    \A c \in Evaluated :
        ResultOf(c).flagged =>
            ResultOf(c).failed_behaviors # <<>> \/ ResultOf(c).security_issues # <<>>

\* C7: when the judge call fails (network error, timeout, unparseable
\* response) evaluate returns a result, not an error: adherence_score absent,
\* confidence "low", the scanner's issues intact, flagged exactly when
\* security_issues is non-empty.
JudgeFailed(c) == evals[c].reply.kind \in JudgeFailureKinds

C7_JudgeFailureDegrades ==
    \A c \in Calls :
        JudgeFailed(c) /\ calls[c].kind = "manual" /\ calls[c].pc = "done" =>
            /\ c \in Evaluated
            /\ calls[c].observed.kind = "result"
            /\ ResultOf(c).adherence_score = <<>>
            /\ ResultOf(c).confidence = "low"
            /\ ResultOf(c).security_issues = evals[c].scan.issues
            /\ \A rule \in SoundRules(c) : \A i \in Matches(rule, evals[c].text) :
                   \E k \in 1..Len(ResultOf(c).security_issues) :
                       /\ ResultOf(c).security_issues[k].category = rule
                       /\ ResultOf(c).security_issues[k].evidence_excerpt = i
            /\ ResultOf(c).flagged <=> ResultOf(c).security_issues # <<>>

\* The scenario of the design document: the output carries an SSN, the judge
\* call times out.
C7_Witness ==
    \E c \in Evaluated :
        /\ evals[c].reply.kind = "timeout"
        /\ calls[c].node = "extract_entities"
        /\ ResultOf(c).adherence_score = <<>>
        /\ Len(ResultOf(c).security_issues) = 1
        /\ ResultOf(c).security_issues[1].category = "ssn"
        /\ ResultOf(c).flagged
        /\ ResultOf(c).confidence = "low"

\* C8: in every evaluation the scanner runs, and runs before the judge; for a
\* node with no expected and no unexpected behaviors the judge is not invoked
\* and adherence_score is absent, while the scanner's issues are reported.
Declares(c) ==
    Len(ContractOf(c).expected_behaviors) + Len(ContractOf(c).unexpected_behaviors)

C8_ScannerFirstJudgeOnlyWithBehaviors ==
    \A c \in Calls :
        LET steps == evals[c].steps
        IN  /\ steps # <<>> => steps[1] = "scan"
            /\ c \in Evaluated => \E i \in 1..Len(steps) : steps[i] = "scan"
            /\ \A j \in 1..Len(steps) :
                   steps[j] = "judge" => \E i \in 1..(j - 1) : steps[i] = "scan"
            /\ (steps # <<>> /\ Declares(c) = 0) =>
                   /\ \A j \in 1..Len(steps) : steps[j] # "judge"
                   /\ c \in Evaluated =>
                        /\ ResultOf(c).adherence_score = <<>>
                        /\ \A rule \in SoundRules(c) :
                               Matches(rule, evals[c].text) # {} =>
                                   \E k \in 1..Len(ResultOf(c).security_issues) :
                                       ResultOf(c).security_issues[k].category = rule

\* A node without behaviors whose output trips a rule: no score, an issue.
C8_Witness ==
    \E c \in Evaluated :
        /\ Declares(c) = 0
        /\ ResultOf(c).adherence_score = <<>>
        /\ ResultOf(c).security_issues # <<>>
        /\ evals[c].steps = <<"scan", "merge">>

\* C9: an adherence_score carried by a result lies in [0,1]; a judge score
\* outside that range is clamped, never propagated.
C9_ScoreInUnitInterval ==
    \A c \in Evaluated :
        LET score == ResultOf(c).adherence_score
            reply == evals[c].reply
        IN  /\ score # <<>> => score[1] >= 0 /\ score[1] <= 100
            /\ (reply.kind = "json" /\ reply.score > 100) => score = <<100>>
            /\ (reply.kind = "json" /\ reply.score < 0) => score = <<0>>
            /\ (reply.kind = "json" /\ reply.score \in 0..100) => score = <<reply.score>>

\* The judge answered 1.3 and the result carries 1.
C9_Witness ==
    \E c \in Evaluated : evals[c].reply.score = 130 /\ ResultOf(c).adherence_score = <<100>>

\* C10: when an enabled rule throws, only its contribution is dropped: every
\* other enabled rule is evaluated, their issues appear in rule-evaluation
\* order, and the judge is still invoked.
RuleIndex(rule) == CHOOSE i \in 1..Len(RuleOrder) : RuleOrder[i] = rule

Threw(c) == ContractOf(c).security_checks \cap evals[c].broken

C3_RecordCallBeforeRecordEvaluation ==
    \A i \in 1..Len(sink) :
        sink[i].kind = "record_evaluation" =>
            /\ \E j \in 1..(i - 1) :
                   sink[j].kind = "record_call" /\ sink[j].call = sink[i].call
            /\ \A j \in (i + 1)..Len(sink) : sink[j].call # sink[i].call

\* Background mode, two calls, the evaluations reported in reverse order.
C3_Witness ==
    /\ mode = "background"
    /\ Len(sink) = 4
    /\ sink[1].kind = "record_call" /\ sink[1].call = 1
    /\ sink[2].kind = "record_call" /\ sink[2].call = 2
    /\ sink[3].kind = "record_evaluation" /\ sink[3].call = 2
    /\ sink[4].kind = "record_evaluation" /\ sink[4].call = 1

\* C4: when the wrapped function raises, the caller observes exactly that
\* error, in every mode and whatever happens to the diagnostics and the
\* telemetry the wrapper scheduled; the re-raise waits on nothing.
C4_RaisedErrorReachesCallerUnchanged ==
    \A c \in Calls :
        calls[c].fn.kind = "error" =>
            /\ calls[c].pc = "done"
            /\ calls[c].observed.kind = "error"
            /\ calls[c].observed.type = calls[c].fn.type
            /\ calls[c].observed.message = calls[c].fn.message
            /\ \E e \in FunctionErrors : calls[c].fn.type = e[1] /\ calls[c].fn.message = e[2]

\* The function raised, the sink rejected a "record call" and the
\* diagnostics of the call failed.
C4_Witness ==
    \E c \in Calls :
        /\ calls[c].fn = Raised("ValueError", "empty document")
        /\ calls[c].observed = Raised("ValueError", "empty document")
        /\ evals[c].pc = "diag_failed"
        /\ \E i \in 1..Len(sink) : sink[i].call = c /\ sink[i].kind = "record_call"
        /\ "record_call" \in rejected

\* C5: in background mode the wrapper returns the wrapped function's result
\* without waiting for the evaluation, and no outcome of the detached
\* evaluation is observable by the caller.
C5_BackgroundReturnsOwnResult ==
    mode = "background" =>
        \A c \in Calls :
            /\ calls[c].pc # "awaiting_eval" \/ calls[c].kind = "manual"
            /\ calls[c].fn.kind = "value" =>
                   /\ calls[c].pc = "done"
                   /\ calls[c].observed = calls[c].fn
                   /\ calls[c].observed.value \in CallTexts

\* The caller has the result while the evaluation has not started its scan,
\* and a second call's evaluation has failed.
C5_Witness ==
    /\ mode = "background"
    /\ \E c, d \in Calls :
           /\ calls[c].observed = Returned(<<"ssn">>)
           /\ evals[c].pc = "scan"
           /\ calls[d].observed = Returned(<<"ok">>)
           /\ evals[d].pc = "failed"

\* C6: a node name with no registered contract is a hard error: evaluate
\* raises ValueError without invoking the engine, a wrapped call fails before
\* the wrapped function runs; nothing else on the evaluation side fails the
\* call path.
Unknown(c) == calls[c].kind # "none" /\ calls[c].node \notin DOMAIN nodes

C6_UnknownNodeIsHardError ==
    \A c \in Calls :
        /\ Unknown(c) =>
               /\ calls[c].pc = "done"
               /\ calls[c].observed.kind = "error"
               /\ calls[c].observed.type =
                      (IF calls[c].kind = "manual" THEN "ValueError" ELSE "ContractNotFound")
               /\ ~calls[c].executed
               /\ evals[c] = IdleEval
               /\ \A i \in 1..Len(sink) : sink[i].call # c
        /\ (calls[c].kind = "wrapped" /\ ~Unknown(c) /\ calls[c].pc = "done") =>
               /\ calls[c].executed
               /\ calls[c].observed = calls[c].fn
        /\ (calls[c].kind = "manual" /\ ~Unknown(c) /\ calls[c].pc = "done") =>
               calls[c].observed.kind = "result" /\ c \in Evaluated

\* Both entries were given the unregistered name.
C6_Witness ==
    \E c, d \in Calls :
        /\ calls[c].kind = "manual" /\ calls[c].node = "ghost_node"
        /\ calls[c].observed.type = "ValueError"
        /\ calls[d].kind = "wrapped" /\ calls[d].node = "ghost_node"
        /\ calls[d].observed.type = "ContractNotFound"

\* -------------------------------------------- claims: root-cause advisor

\* The advisor calls that have their answer, and the answer.
Finished == {t \in Tasks : tasks[t].pc = "done" /\ tasks[t].op # "get_cache_stats"}

Answer(t) == tasks[t].outcome[1]

InFlight == {t \in Tasks : tasks[t].pc \in {"read", "model", "store"}}

\* The answer stands for an internal failure: the except clause's dict or
\* the parse fallback.
Degraded(a) == a.error # "none" \/ a.root_cause = "Unable to parse analysis"

TellsManualInvestigation(a) ==
    \E i \in 1..Len(a.suggested_fixes) :
        a.suggested_fixes[i] \in
            {"Manual investigation required", "Review error context manually"}

\* C11: the advisor never raises: in analyze_error and in
\* analyze_evaluation_failure an internal failure (building the context,
\* the model call, parsing, logging) gives a returned generic diagnosis that
\* tells the caller that manual investigation is required.
C11_FailureGivesManualInvestigationDiagnosis ==
    \A t \in Finished :
        /\ tasks[t].outcome # <<>>
        /\ Degraded(Answer(t)) => TellsManualInvestigation(Answer(t))

\* C12: in a sequence of analyze_error calls, a call whose error has the
\* signature of an error analysed with success before it issues no model
\* request and returns the cached analysis, whatever context and data it is
\* given.
C12_RepeatedSignatureServedFromCache ==
    \A t \in Finished :
        (tasks[t].op = "analyze_error" /\ tasks[t].repeat) =>
            /\ ~tasks[t].requested
            /\ tasks[t].key \in DOMAIN _analysis_cache
            /\ tasks[t].outcome = <<_analysis_cache[tasks[t].key]>>

\* C13: in a sequence of analyze_evaluation_failure calls, a call with the
\* signature of a failure analysed before it is served from the analysis
\* cache and issues no model request.
C13_RepeatedEvaluationServedFromCache ==
    \A t \in Tasks :
        (tasks[t].op = "analyze_evaluation_failure" /\ tasks[t].repeat) =>
            /\ tasks[t].pc # "eval_model"
            /\ ~tasks[t].requested

\* C14: the analysis cache is bounded: a fixed limit holds the number of
\* cached analyses down whatever errors of distinct signatures are analysed;
\* here, the cache never holds an analysis for every signature the callers
\* submit.
C14_CacheWithinFixedLimit ==
    Cardinality(DOMAIN _analysis_cache) < Cardinality({_get_cache_key(e) : e \in Errors})

\* C15: under every interleaving of analyze_error, clear_cache and
\* get_cache_stats calls the cache maps each signature to an analysis
\* produced for an error of that signature, and no call fails or returns
\* another signature's analysis because of the interleaving.
C15_CacheWellFormedUnderInterleaving ==
    /\ \A k \in DOMAIN _analysis_cache : _get_cache_key(_analysis_cache[k].about) = k
    /\ \A t \in Finished :
           /\ tasks[t].outcome # <<>>
           /\ Answer(t).error = "none" => _get_cache_key(Answer(t).about) = tasks[t].key
           /\ Answer(t).error # "KeyError"

\* C16: when calls of analyze_error with one signature run concurrently,
\* the model is queried at most once for that signature.
C16_ConcurrentSameSignatureOneRequest ==
    \A t, u \in InFlight :
        (t # u /\ tasks[t].key = tasks[u].key) =>
            ~(tasks[t].requested /\ tasks[u].requested)

\* C17: every analyze_error call returns a dict with root_cause,
\* suggested_fixes, files_to_check, debug_steps and severity: on a fresh
\* answer, on a cache hit, on the parse fallback and on the failure fallback.
C17_AnalyzeErrorReturnsPromisedFields ==
    \A t \in Finished :
        tasks[t].op = "analyze_error" =>
            /\ tasks[t].outcome # <<>>
            /\ Answer(t).shape = "object"
            /\ PromisedFields \subseteq Answer(t).keys

\* The calls that have had a response of the model, and what they made of
\* it: the analysis about to be cached, or the answer.
Replied == {t \in Tasks : tasks[t].text # <<>> /\ tasks[t].pc \in {"store", "done"}}

Parsed(t) == IF tasks[t].pc = "store" THEN tasks[t].analysis[1] ELSE Answer(t)

\* The response is one value between an opening and a closing fence,
\* whitespace around the fences and around the value aside.
Fenced(text) ==
    LET s == Strip(text)
    IN  /\ Len(s) >= 3
        /\ s[1] \in OpeningFences
        /\ s[Len(s)] = "[fence]"
        /\ Len(Strip(SubSeq(s, 2, Len(s) - 1))) = 1

\* The response without its fences and the whitespace around them.
Unwrapped(text) ==
    IF Fenced(text) THEN Strip(SubSeq(Strip(text), 2, Len(Strip(text)) - 1)) ELSE Strip(text)

\* The fields the prompt of the call asked for.
AskedFields(t) ==
    IF tasks[t].op = "analyze_error" THEN PromisedFields \cup {"explanation"}
    ELSE EvaluationFields

FencedJsonParsedAsUnwrapped(t) ==
    (Fenced(tasks[t].text) /\ IsJson(Unwrapped(tasks[t].text))) =>
        LET direct == JsonValue(Unwrapped(tasks[t].text)[1], AskedFields(t), tasks[t].about)
        IN  Loggable(direct) => Parsed(t) = direct

\* C21 as stated: a response wrapped in a code fence (with or without
\* "json") is parsed to the same result as the same JSON unwrapped, and a
\* response that is not valid JSON raises nothing: the advisor returns its
\* "Unable to parse analysis" fallback with the raw text of the response
\* attached.
C21_FallbackCarriesRawText ==
    \A t \in Replied :
        /\ FencedJsonParsedAsUnwrapped(t)
        /\ ~IsJson(Unwrapped(tasks[t].text)) =>
               /\ Parsed(t).root_cause = "Unable to parse analysis"
               /\ Parsed(t).error = "none"
               /\ Parsed(t).explanation = tasks[t].text

\* C21, amended: a response wrapped in a code fence is parsed to the same
\* result as the same JSON unwrapped, and a response that is not valid JSON
\* raises nothing: the advisor returns its "Unable to parse analysis"
\* fallback, and the text attached to it is the response without its
\* fences and the whitespace around them; a failed judge reply degrades to
\* confidence "low".
C21_FencedParsesAsUnwrapped ==
    /\ \A t \in Replied :
           /\ FencedJsonParsedAsUnwrapped(t)
           /\ ~IsJson(Unwrapped(tasks[t].text)) =>
                  /\ Parsed(t).root_cause = "Unable to parse analysis"
                  /\ Parsed(t).error = "none"
                  /\ Parsed(t).explanation = Unwrapped(tasks[t].text)
    /\ \A k \in JudgeFailureKinds : Judge(FailedReply(k)).confidence = "low"

\* analyze_error answered a response given in a json fence with whitespace
\* inside and after it.
C21_Witness ==
    \E t \in Finished :
        /\ tasks[t].op = "analyze_error"
        /\ tasks[t].text = <<"[fence json]", "[nl]", "{asked}", "[nl]", "[fence]", "[nl]">>
        /\ Answer(t) = JsonValue("{asked}", PromisedFields \cup {"explanation"}, tasks[t].about)

\* The calls whose model request is in flight.
Requesting == {t \in Tasks : tasks[t].pc \in {"model", "eval_model"}}

\* C22: an advisor model request is an independent unit of work: while the
\* request of an analyze_error or analyze_evaluation_failure call is in
\* flight, another task of the same event loop can take a step (the network
\* call does not block the loop).
C22_RequestLeavesLoopFree ==
    \A t \in Requesting : ENABLED (NextAdvisorLoop /\ tasks'[t] = tasks[t])

\* No call is between its start and its return.
Quiet == \A t \in Tasks : tasks[t].pc \in {"idle", "done"}

\* The step ends the analyze_error call of t.
Returns(t) ==
    /\ tasks[t].pc # "done"
    /\ tasks'[t].pc = "done"
    /\ tasks'[t].op = "analyze_error"

\* C23: when analyze_error returns its "Analysis failed" fallback the
\* analysis cache is as it was before the call (a failed analysis inserts
\* and changes nothing, so the next call with the signature queries the
\* model again), and every cache entry is an analysis that some
\* analyze_error call returned to its caller. The cache is written by the
\* last step of a call only, so it is that step which must leave it alone.
C23_FailedAnalysisLeavesCacheAlone ==
    [][/\ \A t \in Tasks :
              (Returns(t) /\ tasks'[t].outcome[1].root_cause = "Analysis failed") =>
                  _analysis_cache' = _analysis_cache
       /\ Quiet' => \A k \in DOMAIN _analysis_cache' : k \in analysed'
    ]_vars

\* C24: between two clear_cache calls the cache only grows: an entry stored
\* for a signature is neither evicted nor replaced, every later
\* analyze_error with that signature returns the stored analysis, and
\* get_cache_stats reports the number of signatures stored.
C24_CacheOnlyGrowsAndServes ==
    [][/\ \/ _analysis_cache' = EmptyCache
          \/ \A k \in DOMAIN _analysis_cache :
                 /\ k \in DOMAIN _analysis_cache'
                 /\ _analysis_cache'[k] = _analysis_cache[k]
       /\ \A t \in Tasks :
              (Returns(t) /\ tasks'[t].key \in DOMAIN _analysis_cache) =>
                  tasks'[t].outcome = <<_analysis_cache[tasks'[t].key]>>
       /\ \A t \in Tasks :
              (tasks'[t].pc = "done" /\ tasks'[t].op = "get_cache_stats") =>
                  tasks'[t].count = Cardinality(DOMAIN _analysis_cache')
    ]_vars

\* The calls that have their answer with no analyze_error returned since
\* the last clear_cache: the calls made right after it.
AfterClear == {t \in Tasks : tasks[t].pc = "done" /\ cleared # <<>>}

ClearLeavesNothing ==
    /\ (cleared # <<>> /\ \A t \in Tasks : tasks[t].op # "analyze_error") =>
           _analysis_cache = EmptyCache
    /\ \A t \in AfterClear : tasks[t].op = "get_cache_stats" => tasks[t].count = 0

\* C25 as stated: clear_cache removes every cached analysis: right after it
\* get_cache_stats reports 0, and the next analyze_error, for any
\* signature, issues a new model request.
C25_ClearThenEveryCallRequests ==
    /\ ClearLeavesNothing
    /\ \A t \in AfterClear : tasks[t].op = "analyze_error" => tasks[t].requested

\* C25, amended: clear_cache removes every cached analysis: right after it
\* get_cache_stats reports 0, and the next analyze_error, for any
\* signature, issues a new model request unless building its prompt
\* context raises, in which case it returns the "Analysis failed" fallback
\* with no request.
C25_ClearThenBuildableCallRequests ==
    /\ ClearLeavesNothing
    /\ \A t \in AfterClear :
           tasks[t].op = "analyze_error" =>
               \/ tasks[t].requested
               \/ tasks[t].outcome = <<AnalysisFailed("TypeError")>>

\* The call after clear_cache had a signature the clear had dropped, and it
\* went to the model.
C25_Witness ==
    \E t \in AfterClear :
        /\ tasks[t].op = "analyze_error"
        /\ tasks[t].key \in cleared[1]
        /\ tasks[t].requested

\* ------------------------------------------- claims: bridge and client

\* The operations that reach the telemetry sink through the bridge.
SinkOperations ==
    {"annotate", "submit_evaluation", "LLMObsBridge.flush", "export_span",
     "VertiGuard.flush", "_cleanup"}

\* C18: a failure of the telemetry sink never propagates: annotate,
\* submit_evaluation, flush and export_span of the bridge return normally
\* when the LLMObs operation raises (export_span returns None), and so do
\* VertiGuard.flush and the at-exit cleanup.
C18_SinkFailureNeverPropagates ==
    observed.op \in SinkOperations =>
        /\ observed.outcome.kind = "value"
        /\ observed.sink_raised => observed.outcome.value = NoValue
        /\ observed.op # "export_span" => observed.outcome.value = NoValue

\* The at-exit cleanup returned although LLMObs.flush raised.
C18_Witness ==
    /\ observed.op = "_cleanup"
    /\ observed.sink_raised
    /\ observed.outcome = Returned(NoValue)

\* C19: get_client raises RuntimeError exactly when no init call has
\* completed, and otherwise returns the client of the most recent init that
\* completed; is_initialized is true exactly when get_client would succeed,
\* and once true it stays true.
C19_GetClientFollowsCompletedInit ==
    /\ _client = completed
    /\ observed.op = "get_client" =>
           observed.outcome =
               IF completed = NoClient
               THEN Raised("RuntimeError", "VertiGuard not initialized")
               ELSE Returned(<<completed>>)
    /\ observed.op = "is_initialized" =>
           observed.outcome = Returned(<<completed # NoClient>>)

\* The first init completed, a later one failed after it had wired the
\* decorators, and get_client still gives the first client.
C19_Witness ==
    /\ observed.op = "get_client"
    /\ observed.outcome = Returned(<<1>>)
    /\ inits > 1
    /\ wired = inits

\* C20: once a client is constructed no operation of it (the decorator
\* factories, evaluate, setup_monitors, setup_dashboard, setup_all, flush,
\* submit_service_check, close) adds, removes or changes an entry of
\* config.nodes.
C20_RegistryReadOnly == Constructed => nodes = NodeRegistry

\* evaluate was given a name with no contract, and setup_all has run.
C20_Witness ==
    /\ Constructed
    /\ calls[1].kind = "manual" /\ calls[1].node = "ghost_node"
    /\ calls[1].observed.type = "ValueError"
    /\ observed.op = "setup_all"
    /\ nodes = NodeRegistry

\* C26: whenever is_initialized() is true, the evaluation engine and the
\* Datadog client wired into the decorators and the process-wide config are
\* those of the client get_client() returns, also after an init call whose
\* construction raised partway.
C26_WiringFollowsGlobalClient ==
    Constructed => (wired = _client /\ config_set = _client)

\* C27: is_enabled is true exactly from a successful enable() until the
\* next disable(): enable() on an enabled bridge does nothing and calls
\* LLMObs.enable no second time; disable() flushes only when the bridge was
\* enabled and leaves it disabled also when the flush raises; an enable()
\* after a disable() calls LLMObs.enable again; no other call changes it.
\* (init makes the constructor's enable() call, _cleanup a disable() call.)
C27_EnabledFromEnableToDisable ==
    [][observed' # observed =>
        \A k \in 1..MaxInits :
            LET o   == observed'
                was == k \in enabled
                now == k \in enabled'
            IN  /\ (o.op = "enable" /\ o.bridge = k) =>
                       /\ was => (now /\ o.called = <<>> /\ o.outcome = Returned(NoValue))
                       /\ ~was => (now <=> (o.outcome.kind = "value"))
                       /\ (~was /\ now) => o.called = <<"enable">>
                /\ (o.op = "disable" /\ o.bridge = k) =>
                       /\ ~now
                       /\ o.outcome = Returned(NoValue)
                       /\ o.called = IF was THEN <<"flush">> ELSE <<>>
                /\ (o.op = "is_enabled" /\ o.bridge = k) =>
                       (o.outcome = Returned(<<was>>) /\ now = was)
                /\ (o.op = "init" /\ o.bridge = k) => (now <=> (o.outcome.kind = "value"))
                /\ (o.op = "_cleanup" /\ o.bridge = k) => ~now
                /\ ~(o.op \in {"enable", "disable", "init", "_cleanup"} /\ o.bridge = k) =>
                       now = was
    ]_vars

\* The bridge that init had enabled was enabled by a later enable() that
\* called LLMObs.enable: it had been disabled in between.
C27_Witness ==
    /\ observed.op = "enable"
    /\ observed.called = <<"enable">>
    /\ observed.bridge \in enabled

\* C28: when LLMObs.enable, or the set-up before it, raises inside
\* enable(), the error reaches the caller and the bridge stays disabled;
\* inside VertiGuard construction the constructor fails with it, no at-exit
\* cleanup is registered for that client and get_client never returns it.
C28_EnableErrorLeavesBridgeDisabled ==
    /\ (observed.op \in {"enable", "init"} /\ observed.sink_raised) =>
           /\ observed.outcome = EnableError
           /\ observed.bridge \notin enabled
    /\ (observed.op = "init" /\ observed.sink_raised) =>
           /\ observed.bridge \notin registered
           /\ _client # observed.bridge

\* A second init failed in LLMObs.enable after a first one had completed.
C28_Witness ==
    /\ observed.op = "init"
    /\ observed.sink_raised
    /\ observed.called = <<"enable">>
    /\ observed.outcome = EnableError
    /\ _client # NoClient
    /\ observed.bridge # _client

\* C29: optimize_prompt never raises: when the optimizer is disabled (DSPy
\* missing or failed to initialise) or the DSPy call fails, it returns the
\* original prompt as improved_prompt, no changes_made, confidence 0.0 and
\* an error field, and it leaves the optimization history as it was.
C29_OptimizePromptFallsBack ==
    [][(optimizer'.last.op = "optimize_prompt" /\ optimizer' # optimizer) =>
        LET call == optimizer'.last
        IN  /\ call.outcome.kind = "value"
            /\ (~optimizer.enabled \/ call.failure = "dspy_call") =>
                   /\ call.outcome.value[1].improved_prompt = call.prompt
                   /\ call.outcome.value[1].changes_made = <<>>
                   /\ call.outcome.value[1].confidence = 0
                   /\ call.outcome.value[1].error # "none"
                   /\ optimizer'.history = optimizer.history
    ]_vars

\* The DSPy call failed on an optimizer that had optimized a prompt before:
\* the fallback came back and the history still holds that one record.
C29_Witness ==
    /\ optimizer.last.op = "optimize_prompt"
    /\ optimizer.last.failure = "dspy_call"
    /\ optimizer.last.outcome.value[1].error = "dspy_call"
    /\ Len(optimizer.history) = 1

====
